---------------------------- MODULE Spec2Model ----------------------------
(***************************************************************************)
(* Model of pyxem's DiffractionVectors signal                               *)
(* (src/pyxem/signals/diffraction_vectors.py) and of pixstem's permanent    *)
(* marker helpers (src/pixstem/marker_tools.py).                            *)
(*                                                                          *)
(* Numbers.  Diffraction vectors are pairs of integers.  A Euclidean        *)
(* distance d is carried as its exact square d2; a threshold (the           *)
(* distance_threshold, eps) is a non-negative rational <<num, den>>, so     *)
(* that  d <= t  is  d2 * den^2 <= num^2  and  d > t  is its negation.      *)
(* With these inputs the floating point comparisons of the code are exact.  *)
(***************************************************************************)
EXTENDS Integers, Sequences, FiniteSets, TLC

VARIABLES
    data,                \* self.data, flattened in row-major order: a sequence of vector lists
    shape,               \* the navigation shape: <<n>> (1D) or <<ny, nx>> (2D)
    distance_threshold,  \* argument of get_unique_vectors
    pc,                  \* position of the running call
    err,                 \* the exception that ended the call, or "none"
    pos,                 \* get_unique_vectors: index in data of the next position the loop visits
    gvlist,              \* get_unique_vectors: the accepted vectors
    origin,              \* history: origin[k] is the position gvlist[k] was taken from
    vlist,               \* get_unique_vectors: the list of the position visited last
    gvlist_new,          \* get_unique_vectors: vlist[new_indices] of the position visited last
    gvecs,               \* get_unique_vectors: the returned vectors
    eps,                 \* argument of get_vector_clusters
    min_samples,         \* argument of get_vector_clusters
    gvs,                 \* get_vector_clusters: the array handed to DBSCAN
    db,                  \* get_vector_clusters: the fitted clustering
    structure,           \* get_gvector_indexation: the structure, a cubic lattice given by
                         \*   the length of its reciprocal cell
    magnitude_threshold, \* argument of get_gvector_indexation
    angular_threshold,   \* argument of get_gvector_indexation
    maximum_length,      \* argument of get_gvector_indexation
    history,             \* the finished calls of get_gvector_indexation on this signal, each
                         \*   with its angular_threshold and its outcome
    metadata,            \* signal.metadata: the nodes it holds, by name
    added                \* history: the markers of all marker lists passed so far, in order

sigvars == <<data, shape, pc, err>>
uvvars == <<distance_threshold, pos, gvlist, origin, vlist, gvlist_new, gvecs>>
clvars == <<eps, min_samples, gvs, db>>
idxvars == <<structure, magnitude_threshold, angular_threshold, maximum_length, history>>
mkvars == <<metadata, added>>
vars == <<sigvars, uvvars, clvars, idxvars, mkvars>>

(***************************************************************************)
(* Bounds of the model.                                                     *)
(***************************************************************************)
MaxPos == 4        \* scan positions in a grid
MaxVecs == 4       \* vectors in a grid, all positions together
MaxIdxPos == 2     \* scan positions of the signals get_gvector_indexation is called on
MaxCalls == 2      \* calls of get_gvector_indexation on one signal
MaxMarkers == 4    \* markers stored on one signal

(***************************************************************************)
(* Constants of the program.                                                *)
(***************************************************************************)
FillValue == -1000 \* the coordinate of a marker where a position has no such peak
DefaultSize == 20  \* the default marker size
None == "None"
\* An optional value (an argument or an array cell that may be None): <<>> is
\* None, <<x>> is x.
Absent == <<>>

(***************************************************************************)
(* The values the inputs are drawn from.  The vectors are at distances 1, 2  *)
(* and sqrt(5) of each other; the thresholds are 0, 1/2, 1 and 2.           *)
(***************************************************************************)
Points == {<<0, 0>>, <<0, 1>>, <<2, 0>>}
Thresholds == {<<0, 1>>, <<1, 2>>, <<1, 1>>, <<2, 1>>}
EpsValues == {<<1, 100>>, <<1, 1>>}
MinSamplesValues == {1, 2, 10}
\* <<reciprocal cell length of the cubic structure, maximum_length>>
LatticeInputs == {<<1, 1>>, <<2, 1>>, <<1, 2>>}
MagnitudeThresholds == {<<1, 4>>, <<1, 1>>}
AngularThresholds == {Absent, <<5>>}
\* The scan positions of a peak array, and the peak lists a position may hold.
NavIndices == {<<0, 0>>, <<0, 1>>}
PeakLists == {<<>>, <<<<0, 1>>>>, <<<<1, 1>>, <<1, 0>>>>}
Colors == {"red", "blue"}
\* signal.axes_manager.signal_axes: each axis maps an index to offset + index * scale.
SignalAxes == <<[offset |-> -2, scale |-> 3], [offset |-> 1, scale |-> 2]>>

(***************************************************************************)
(* Sequences and arithmetic.                                                *)
(***************************************************************************)
RECURSIVE SumLens(_, _)
SumLens(lens, n) == IF n = 0 THEN 0 ELSE lens[n] + SumLens(lens, n - 1)

\* The part of the flat sequence f that the position p holds under the split lens.
Segment(f, lens, p) ==
    LET start == SumLens(lens, p - 1)
    IN  [k \in 1..lens[p] |-> f[start + k]]

FlatSeqs == UNION { [1..k -> Points] : k \in 0..MaxVecs }

\* Every ragged grid of n positions holding at most MaxVecs vectors in all.
Grids(n) ==
    UNION { { [p \in 1..n |-> Segment(f, l, p)] :
                l \in { m \in [1..n -> 0..Len(f)] : SumLens(m, n) = Len(f) } } :
            f \in FlatSeqs }

\* The navigation shapes of a grid of n positions: 1D, or 2D with ny <= nx.
Shapes(n) ==
    {<<n>>} \cup { <<ny, n \div ny>> : ny \in { d \in 1..n : n % d = 0 /\ d * d <= n } }

Sq(x) == x * x

\* Squared Euclidean distance of two vectors.
Dist2(u, v) == Sq(u[1] - v[1]) + Sq(u[2] - v[2])

\* d <= t and d > t for the distance of square d2 and the threshold t = <<num, den>>.
WithinThreshold(d2, t) == d2 * Sq(t[2]) <= Sq(t[1])
ExceedsThreshold(d2, t) == d2 * Sq(t[2]) > Sq(t[1])

\* The elements of s at the indices of the set keep, in the order of s.
RECURSIVE SubSeqAt(_, _, _)
SubSeqAt(s, keep, n) ==
    IF n = 0 THEN <<>>
    ELSE IF n \in keep THEN Append(SubSeqAt(s, keep, n - 1), s[n])
         ELSE SubSeqAt(s, keep, n - 1)

\* The indices of the set idx in ascending order.
RECURSIVE Ascending(_, _)
Ascending(idx, n) ==
    IF n = 0 THEN <<>>
    ELSE IF n \in idx THEN Append(Ascending(idx, n - 1), n)
         ELSE Ascending(idx, n - 1)

Range(s) == { s[k] : k \in DOMAIN s }

\* The k-th smallest element of a set of numbers.
NthOf(S, k) == CHOOSE i \in S : Cardinality({ j \in S : j <= i }) = k

(***************************************************************************)
(* Library and helper functions get_unique_vectors calls.                   *)
(***************************************************************************)
\* navigation_dimension of the axes manager.
navigation_dimension == Len(shape)

\* navigation_size of the axes manager: the number of scan positions.
navigation_size == Len(data)

\* self.data[0,0] (2D navigation) and self.data[0] (otherwise).
DataAt2(r, c) == data[r * shape[2] + c + 1]
DataAt1(i) == data[i + 1]

\* scipy.spatial.distance_matrix(x, y): entry [i][j] is the distance of x[i] and y[j].
distance_matrix(x, y) ==
    [i \in 1..Len(x) |-> [j \in 1..Len(y) |-> Dist2(x[i], y[j])]]

\* pyxem.utils.vector_utils.get_indices_from_distance_matrix: of the matrix of
\* distances between the accepted vectors (first index) and the candidates
\* (second index), the candidates all of whose distances exceed the threshold.
get_indices_from_distance_matrix(distances, t, ncand) ==
    Ascending({ j \in 1..ncand :
                  \A i \in DOMAIN distances : ExceedsThreshold(distances[i][j], t) },
              ncand)

\* vlist[new_indices]
TakeIndices(vl, indices) == [k \in 1..Len(indices) |-> vl[indices[k]]]

\* ndarray.any(): some element (coordinate) of the array is non-zero.
NdAny(arr) == \E k \in DOMAIN arr : arr[k][1] # 0 \/ arr[k][2] # 0

\* Mutant: the candidates are compared with the seed alone.
SelectNewSeedOnly(accepted, vl, t) ==
    TakeIndices(vl, get_indices_from_distance_matrix(
                        distance_matrix(SubSeq(accepted, 1, 1), vl), t, Len(vl)))

\* Mutant: the candidates are compared with the vector accepted last alone.
SelectNewLastOnly(accepted, vl, t) ==
    TakeIndices(vl, get_indices_from_distance_matrix(
                        distance_matrix(SubSeq(accepted, Len(accepted), Len(accepted)), vl),
                        t, Len(vl)))

\* The loop body's selection: distances, new_indices, gvlist_new (lines 125-128).
SelectNew(accepted, vl, t) ==
    TakeIndices(vl, get_indices_from_distance_matrix(distance_matrix(accepted, vl),
                                                     t, Len(vl)))

\* Mutant: the count of the consistency pass uses < where the code uses <=.
DeleteIndicesStrict(gv, t) ==
    Ascending({ i \in 1..Len(gv) :
                  Cardinality({ j \in 1..Len(gv) :
                                  Dist2(gv[j], gv[i]) * Sq(t[2]) < Sq(t[1]) }) > 1 },
              Len(gv))

\* Mutant: of vectors close to each other the first is kept as their representative.
DeleteIndicesKeepFirst(gv, t) ==
    Ascending({ i \in 1..Len(gv) :
                  \E j \in 1..(i - 1) : WithinThreshold(Dist2(gv[j], gv[i]), t) },
              Len(gv))

\* The indices the consistency pass marks (lines 132-137), in ascending order.
DeleteIndices(gv, t) ==
    LET distances == distance_matrix(gv, gv)
    IN  Ascending({ i \in 1..Len(gv) :
                      Cardinality({ j \in 1..Len(gv) :
                                      WithinThreshold(distances[j][i], t) }) > 1 },
                  Len(gv))

\* np.delete(arr, indices, axis=0).  delete_indices is built by np.append and
\* holds the row numbers as floats, which np.delete takes as the rows to drop.
NpDelete(arr, indices) ==
    SubSeqAt(arr, (1..Len(arr)) \ Range(indices), Len(arr))

\* The consistency pass of get_unique_vectors (lines 132-138).
ConsistencyPass(gv, t) == NpDelete(gv, DeleteIndices(gv, t))

(***************************************************************************)
(* get_unique_vectors, one action per step of the call.                     *)
(***************************************************************************)
UVIdle ==
    /\ distance_threshold = None
    /\ pos = 1
    /\ gvlist = <<>>
    /\ origin = <<>>
    /\ vlist = <<>>
    /\ gvlist_new = <<>>
    /\ gvecs = None

SignalInit ==
    /\ \E n \in 1..MaxPos : data \in Grids(n) /\ shape \in Shapes(n)
    /\ pc = "called"
    /\ err = "none"

\* Mutant: an empty first list seeds an empty accepted list.
SeedVectorsNoCheck(first) ==
    [raised |-> "none", value |-> IF Len(first) = 0 THEN <<>> ELSE <<first[1]>>]

\* np.array([first[0]]): indexing an empty list raises IndexError.
SeedVectors(first) ==
    IF Len(first) = 0
    THEN [raised |-> "IndexError", value |-> <<>>]
    ELSE [raised |-> "none", value |-> <<first[1]>>]

\* Lines 118-121: the accepted list starts as the first vector of the first position.
Seed ==
    /\ pc = "called"
    /\ LET first == IF navigation_dimension = 2 THEN DataAt2(0, 0) ELSE DataAt1(0)
           seeded == SeedVectors(first)
       IN  IF seeded.raised # "none"
           THEN /\ pc' = "raised"
                /\ err' = seeded.raised
                /\ UNCHANGED <<gvlist, origin>>
           ELSE /\ pc' = "loop"
                /\ gvlist' = seeded.value
                /\ origin' = [k \in 1..Len(seeded.value) |-> 1]
                /\ UNCHANGED err
    /\ UNCHANGED <<data, shape, distance_threshold, pos, vlist, gvlist_new, gvecs>>
    /\ UNCHANGED <<clvars, idxvars, mkvars>>

\* Lines 123-130: one iteration of the loop over _iterate_signal().  On a signal
\* of two or more positions it yields the positions in row-major order, the first
\* one included, each as an array whose element 0 is the position's vector list;
\* a position without vectors holds an empty array of pairs, of which nothing is
\* selected.  On a signal of fewer than two positions it yields self(), the vector
\* list itself, so vlist = i[0] is the first vector alone and distance_matrix
\* raises ValueError for its shape (line 125).
VisitPosition ==
    /\ pc = "loop"
    /\ pos <= Len(data)
    /\ IF navigation_size < 2
       THEN /\ vlist' = data[1][1]
            /\ pc' = "raised"
            /\ err' = "ValueError"
            /\ UNCHANGED <<gvlist_new, gvlist, origin, pos>>
       ELSE /\ vlist' = data[pos]
            /\ gvlist_new' = SelectNew(gvlist, data[pos], distance_threshold)
            /\ IF NdAny(gvlist_new')
               THEN /\ gvlist' = gvlist \o gvlist_new'
                    /\ origin' = origin \o [k \in 1..Len(gvlist_new') |-> pos]
               ELSE UNCHANGED <<gvlist, origin>>
            /\ pos' = pos + 1
            /\ UNCHANGED <<pc, err>>
    /\ UNCHANGED <<data, shape, distance_threshold, gvecs>>
    /\ UNCHANGED <<clvars, idxvars, mkvars>>

\* Lines 131-142: the consistency pass and the return.
CheckAndReturn ==
    /\ pc = "loop"
    /\ pos > Len(data)
    /\ gvecs' = ConsistencyPass(gvlist, distance_threshold)
    /\ pc' = "returned"
    /\ UNCHANGED <<data, shape, distance_threshold, err, pos, gvlist, origin,
                   vlist, gvlist_new>>
    /\ UNCHANGED <<clvars, idxvars, mkvars>>

(***************************************************************************)
(* get_vector_clusters.                                                     *)
(***************************************************************************)
\* The points sklearn's radius_neighbors finds within eps of X[i], X[i] included.
Neighborhood(X, i, e) ==
    { j \in DOMAIN X : WithinThreshold(Dist2(X[i], X[j]), e) }

\* sklearn: a core sample has at least min_samples points in its neighbourhood.
IsCoreSample(X, i, e, ms) == Cardinality(Neighborhood(X, i, e)) >= ms

\* The points reached from the set S by expanding the neighbourhoods of its core samples.
RECURSIVE Reached(_, _, _, _)
Reached(X, S, e, ms) ==
    LET more == S \cup UNION { Neighborhood(X, i, e) :
                                 i \in { c \in S : IsCoreSample(X, c, e, ms) } }
    IN  IF more = S THEN S ELSE Reached(X, more, e, ms)

\* sklearn's dbscan_inner from point i on: every unlabelled core sample starts the
\* next cluster, which takes the unlabelled points reached from it; -1 is noise.
RECURSIVE DbscanInner(_, _, _, _, _, _)
DbscanInner(X, i, labels, label_num, e, ms) ==
    IF i > Len(X) THEN labels
    ELSE IF labels[i] # -1 \/ ~IsCoreSample(X, i, e, ms)
         THEN DbscanInner(X, i + 1, labels, label_num, e, ms)
         ELSE LET cluster == { k \in Reached(X, {i}, e, ms) : labels[k] = -1 }
              IN  DbscanInner(X, i + 1,
                              [k \in DOMAIN X |-> IF k \in cluster THEN label_num
                                                  ELSE labels[k]],
                              label_num + 1, e, ms)

\* DBSCAN(eps, min_samples).fit(X): labels_ and core_sample_indices_ (0-based).
DBSCAN(X, e, ms) ==
    [ labels |-> DbscanInner(X, 1, [k \in DOMAIN X |-> -1], 0, e, ms),
      core_sample_indices |->
          [k \in 1..Cardinality({ c \in DOMAIN X : IsCoreSample(X, c, e, ms) }) |->
              NthOf({ c \in DOMAIN X : IsCoreSample(X, c, e, ms) }, k) - 1] ]

ClIdle ==
    /\ eps = None
    /\ min_samples = None
    /\ gvs = None
    /\ db = None

\* Lines 167-170: gvs is the array of the first vector of the first position.
ClusterSeed ==
    /\ pc = "called"
    /\ LET first == IF navigation_dimension = 2 THEN DataAt2(0, 0) ELSE DataAt1(0)
           seeded == SeedVectors(first)
       IN  IF seeded.raised # "none"
           THEN /\ pc' = "raised"
                /\ err' = seeded.raised
                /\ UNCHANGED gvs
           ELSE /\ pc' = "fit"
                /\ gvs' = seeded.value
                /\ UNCHANGED err
    /\ UNCHANGED <<data, shape, eps, min_samples, db>>
    /\ UNCHANGED <<uvvars, idxvars, mkvars>>

\* Lines 172-174: the clustering of gvs is fitted and returned.
ClusterFit ==
    /\ pc = "fit"
    /\ db' = DBSCAN(gvs, eps, min_samples)
    /\ pc' = "returned"
    /\ UNCHANGED <<data, shape, err, eps, min_samples, gvs>>
    /\ UNCHANGED <<uvvars, idxvars, mkvars>>

(***************************************************************************)
(* get_gvector_indexation.                                                  *)
(***************************************************************************)
\* The names bound at module level (lines 19-36): the imports, the class, and what
\* the code uses of the star imports of pyxem.utils.
ModuleGlobals ==
    [ name \in {"roi", "BaseSignal", "Signal1D", "Signal2D", "distance_matrix",
                "DBSCAN", "tqdm", "plt", "VDFImage", "DiffractionVectors"}
               |-> "import" ]
    @@ [ name \in {"np", "pxm", "calculate_norms", "calculate_norms_ragged",
                   "get_indices_from_distance_matrix", "get_npeaks"}
               |-> "import *" ]

\* The names get_gvector_indexation binds: its parameters and its assignments.
IndexationLocals ==
    {"self", "structure", "magnitude_threshold", "angular_threshold", "maximum_length",
     "recip_latt", "recip_pts", "calc_peaks", "arr_shape", "gindex", "i", "it", "res",
     "j", "peak_diff"}

\* get_points_in_sphere([[0, 0, 0]], [0, 0, 0], r) of the cubic reciprocal lattice of
\* cell length astar: the lattice points within r of the origin, each with the
\* square of its distance.
PointsInSphere(astar, r) ==
    LET H == r \div astar
    IN  { [hkl |-> <<h, k, l>>, mag2 |-> Sq(astar) * (Sq(h) + Sq(k) + Sq(l))] :
            <<h, k, l>> \in { t \in (-H..H) \X (-H..H) \X (-H..H) :
                                Sq(astar) * (Sq(t[1]) + Sq(t[2]) + Sq(t[3])) <= Sq(r) } }

\* The sort key of line 267: (i[1], -i[0][0], -i[0][1], -i[0][2]).
KeyBefore(p, q) ==
    \/ p.mag2 < q.mag2
    \/ p.mag2 = q.mag2 /\ p.hkl[1] > q.hkl[1]
    \/ p.mag2 = q.mag2 /\ p.hkl[1] = q.hkl[1] /\ p.hkl[2] > q.hkl[2]
    \/ p.mag2 = q.mag2 /\ p.hkl[1] = q.hkl[1] /\ p.hkl[2] = q.hkl[2] /\ p.hkl[3] > q.hkl[3]

\* Lines 265-267: calc_peaks, the lattice points sorted by the key.
CalcPeaks(astar, r) ==
    LET pts == PointsInSphere(astar, r)
    IN  [k \in 1..Cardinality(pts) |->
            CHOOSE p \in pts : Cardinality({ q \in pts : KeyBefore(q, p) }) = k - 1]

\* (sqrt(g2) - sqrt(m2))^2 < t for the threshold t = <<num, den>>.
SquaredDifferenceBelow(g2, m2, t) ==
    LET lhs == t[2] * (g2 + m2) - t[1]
    IN  lhs < 0 \/ Sq(lhs) < 4 * Sq(t[2]) * g2 * m2

\* Lines 276-281: the matches of one position: for each magnitude (given by its
\* square) the peaks whose squared difference is below the threshold, and those
\* differences, each written as the pair of squares it is the difference of.
IndexCell(glens, calc_peaks, mt) ==
    [j \in DOMAIN glens |->
        LET hits == { k \in DOMAIN calc_peaks :
                        SquaredDifferenceBelow(calc_peaks[k].mag2, glens[j], mt) }
        IN  [ peaks |-> SubSeqAt(calc_peaks, hits, Len(calc_peaks)),
              peak_diff |-> [n \in 1..Cardinality(hits) |->
                                <<calc_peaks[NthOf(hits, n)].mag2, glens[j]>>] ]]

\* Lines 274-281 from the iteration of position p on.  The axes manager yields an
\* index tuple of navigation_dimension entries, so i[1] raises IndexError on a 1D
\* signal; glengths is bound neither in the function nor in the module, so its
\* lookup raises NameError.
RECURSIVE IndexationLoop(_, _, _, _, _)
IndexationLoop(p, gindex, nav_dim, calc_peaks, mt) ==
    IF p > Len(gindex) THEN [raised |-> "none", value |-> gindex]
    ELSE IF nav_dim < 2 THEN [raised |-> "IndexError", value |-> None]
    ELSE IF "glengths" \notin IndexationLocals \cup DOMAIN ModuleGlobals
         THEN [raised |-> "NameError", value |-> None]
         ELSE IndexationLoop(p + 1,
                             [gindex EXCEPT ![p] =
                                 IndexCell(ModuleGlobals["glengths"][p], calc_peaks, mt)],
                             nav_dim, calc_peaks, mt)

\* Lines 283-286: both branches are pass.
AngularBranch(gindex, at) == IF at = Absent THEN gindex ELSE gindex

\* get_gvector_indexation on a signal of n positions (lines 264-288).
get_gvector_indexation(n, nav_dim, astar, mt, at, ml) ==
    LET calc_peaks == CalcPeaks(astar, ml)
        gindex == [p \in 1..n |-> 0]
        looped == IndexationLoop(1, gindex, nav_dim, calc_peaks, mt)
    IN  IF looped.raised # "none" THEN looped
        ELSE [raised |-> "none", value |-> AngularBranch(looped.value, at)]

IdxIdle ==
    /\ structure = None
    /\ magnitude_threshold = None
    /\ angular_threshold = None
    /\ maximum_length = None
    /\ history = <<>>

\* One call of get_gvector_indexation, from entry to its return or its exception.
GetGvectorIndexation ==
    /\ pc = "called"
    /\ LET outcome == get_gvector_indexation(Len(data), navigation_dimension, structure,
                                             magnitude_threshold, angular_threshold,
                                             maximum_length)
       IN  /\ history' = Append(history, [angular_threshold |-> angular_threshold,
                                          outcome |-> outcome])
           /\ err' = outcome.raised
           /\ pc' = IF outcome.raised = "none" THEN "returned" ELSE "raised"
    /\ UNCHANGED <<data, shape, structure, magnitude_threshold, angular_threshold,
                   maximum_length>>
    /\ UNCHANGED <<uvvars, clvars, mkvars>>

\* The caller calls again with the same arguments but for angular_threshold.
CallAgain ==
    /\ pc \in {"returned", "raised"}
    /\ Len(history) < MaxCalls
    /\ angular_threshold' \in AngularThresholds
    /\ pc' = "called"
    /\ err' = "none"
    /\ UNCHANGED <<data, shape, structure, magnitude_threshold, maximum_length, history>>
    /\ UNCHANGED <<uvvars, clvars, mkvars>>

(***************************************************************************)
(* Permanent markers (marker_tools.py).                                     *)
(***************************************************************************)
\* The largest element of a non-empty set of numbers.
MaxOf(S) == CHOOSE m \in S : \A n \in S : n <= m

\* The decimal digits of n, as '{0}'.format(n) writes them.
RECURSIVE Decimal(_)
Decimal(n) == IF n < 10 THEN <<n>> ELSE Append(Decimal(n \div 10), n % 10)

\* 'marker{0}'.format(n)
MarkerName(n) == <<"marker">> \o Decimal(n)

\* axis.index2value(index)
index2value(axis, index) == axis.offset + index * axis.scale

\* _get_4d_points_marker_list (lines 33-63).  A cell of peaks_list is Absent (None)
\* or <<its peak list>>; signal_axes is Absent (None) or <<the two axes>>.
get_4d_points_marker_list(peaks_list, signal_axes, color, size) ==
    LET max_peaks == MaxOf({0} \cup { Len(peaks_list[ix][1]) :
                                        ix \in { c \in DOMAIN peaks_list :
                                                   peaks_list[c] # Absent } })
        marker_x(ix, i_p) ==
            IF peaks_list[ix] = Absent \/ i_p > Len(peaks_list[ix][1]) THEN FillValue
            ELSE IF signal_axes = Absent THEN peaks_list[ix][1][i_p][2]
            ELSE index2value(signal_axes[1][1], peaks_list[ix][1][i_p][2])
        marker_y(ix, i_p) ==
            IF peaks_list[ix] = Absent \/ i_p > Len(peaks_list[ix][1]) THEN FillValue
            ELSE IF signal_axes = Absent THEN peaks_list[ix][1][i_p][1]
            ELSE index2value(signal_axes[1][2], peaks_list[ix][1][i_p][1])
    IN  [i_p \in 1..max_peaks |->
            [ x |-> [ix \in DOMAIN peaks_list |-> marker_x(ix, i_p)],
              y |-> [ix \in DOMAIN peaks_list |-> marker_y(ix, i_p)],
              color |-> color,
              size |-> size ]]

\* Mutant: the new markers are numbered from 0 whatever the node holds.
MarkerExtraZero(md) == 0

\* Line 181: marker_extra = len(signal.metadata.Markers), the entries of the node.
MarkerExtra(md) == Cardinality(DOMAIN md["Markers"])

\* _add_permanent_markers_to_signal (lines 179-184): the metadata after the call.
add_permanent_markers_to_signal(md, marker_list) ==
    LET with_node == IF "Markers" \in DOMAIN md THEN md
                     ELSE [n \in DOMAIN md \cup {"Markers"} |->
                              IF n = "Markers" THEN <<>> ELSE md[n]]
        marker_extra == MarkerExtra(with_node)
        names == { MarkerName(imarker - 1 + marker_extra) : imarker \in DOMAIN marker_list }
    IN  [with_node EXCEPT !["Markers"] =
            [name \in DOMAIN with_node["Markers"] \cup names |->
                IF name \in names
                THEN marker_list[CHOOSE imarker \in DOMAIN marker_list :
                                    MarkerName(imarker - 1 + marker_extra) = name]
                ELSE with_node["Markers"][name]]]

PeakArrays == [NavIndices -> {Absent} \cup { <<pl>> : pl \in PeakLists }]

MkIdle ==
    /\ metadata = <<>>
    /\ added = <<>>

\* A caller builds a marker list as in the docstring (lines 170-175) and calls
\* _add_permanent_markers_to_signal.
AddPermanentMarkers ==
    \E peak_array \in PeakArrays, axes \in {Absent, <<SignalAxes>>} :
        LET marker_list == get_4d_points_marker_list(peak_array, axes, "red", DefaultSize)
        IN  /\ Len(added) + Len(marker_list) <= MaxMarkers
            /\ metadata' = add_permanent_markers_to_signal(metadata, marker_list)
            /\ added' = added \o marker_list
            /\ UNCHANGED <<sigvars, uvvars, clvars, idxvars>>

\* add_peak_array_to_signal_as_markers (lines 205-208).
AddPeakArrayAsMarkers ==
    \E peak_array \in PeakArrays, color \in Colors :
        LET marker_list == get_4d_points_marker_list(peak_array, <<SignalAxes>>, color,
                                                     DefaultSize)
        IN  /\ Len(added) + Len(marker_list) <= MaxMarkers
            /\ metadata' = add_permanent_markers_to_signal(metadata, marker_list)
            /\ added' = added \o marker_list
            /\ UNCHANGED <<sigvars, uvvars, clvars, idxvars>>

(***************************************************************************)
(* Specifications: one call of one method on a signal.                      *)
(***************************************************************************)
UVInit ==
    /\ SignalInit
    /\ distance_threshold \in Thresholds
    /\ pos = 1
    /\ gvlist = <<>>
    /\ origin = <<>>
    /\ vlist = <<>>
    /\ gvlist_new = <<>>
    /\ gvecs = None
    /\ ClIdle
    /\ IdxIdle
    /\ MkIdle

UVNext == Seed \/ VisitPosition \/ CheckAndReturn

SpecUV == UVInit /\ [][UVNext]_vars

ClInit ==
    /\ SignalInit
    /\ eps \in EpsValues
    /\ min_samples \in MinSamplesValues
    /\ gvs = None
    /\ db = None
    /\ UVIdle
    /\ IdxIdle
    /\ MkIdle

ClNext == ClusterSeed \/ ClusterFit

SpecCl == ClInit /\ [][ClNext]_vars

IdxInit ==
    /\ \E n \in 1..MaxIdxPos : data \in Grids(n) /\ shape \in Shapes(n)
    /\ pc = "called"
    /\ err = "none"
    /\ \E li \in LatticeInputs : structure = li[1] /\ maximum_length = li[2]
    /\ magnitude_threshold \in MagnitudeThresholds
    /\ angular_threshold \in AngularThresholds
    /\ history = <<>>
    /\ UVIdle
    /\ ClIdle
    /\ MkIdle

IdxNext == GetGvectorIndexation \/ CallAgain

SpecIdx == IdxInit /\ [][IdxNext]_vars

\* A signal without a Markers node, onto which markers are added call after call.
MkInit ==
    /\ data = <<>>
    /\ shape = <<>>
    /\ pc = "idle"
    /\ err = "none"
    /\ UVIdle
    /\ ClIdle
    /\ IdxIdle
    /\ MkIdle

MkNext == AddPermanentMarkers \/ AddPeakArrayAsMarkers

SpecMk == MkInit /\ [][MkNext]_vars

(***************************************************************************)
(* Properties of get_unique_vectors.                                        *)
(***************************************************************************)
\* Some other member of s lies within the threshold t of s[i].
HasCloseOther(s, i, t) ==
    \E j \in DOMAIN s : j # i /\ WithinThreshold(Dist2(s[i], s[j]), t)


\* The distinct values of the single-vector positions d[1..n], by first appearance.
RECURSIVE FirstAppearances(_, _)
FirstAppearances(d, n) ==
    IF n = 0 THEN <<>>
    ELSE IF \E p \in 1..(n - 1) : d[p][1] = d[n][1]
         THEN FirstAppearances(d, n - 1)
         ELSE Append(FirstAppearances(d, n - 1), d[n][1])

\* C1: the returned vectors hold no two distinct members within distance_threshold
\* of each other, and the consistency pass run on them again deletes nothing.
C1_NoClosePairInResult ==
    pc = "returned" =>
        /\ \A i \in DOMAIN gvecs : ~HasCloseOther(gvecs, i, distance_threshold)
        /\ DeleteIndices(gvecs, distance_threshold) = <<>>
        /\ ConsistencyPass(gvecs, distance_threshold) = gvecs

\* C1 witness: a call returned several vectors after its pass deleted some.
C1_Witness ==
    /\ pc = "returned"
    /\ Len(gvecs) >= 2
    /\ Len(gvecs) < Len(gvlist)

\* C2: when every position holds exactly one vector and the distinct values are
\* pairwise farther apart than distance_threshold, the result is the distinct
\* values, each once, in order of first appearance.
C2_DistinctValuesInScanOrder ==
    ( /\ pc = "returned"
      /\ \A p \in DOMAIN data : Len(data[p]) = 1
      /\ \A p, q \in DOMAIN data :
            data[p][1] # data[q][1] =>
                ExceedsThreshold(Dist2(data[p][1], data[q][1]), distance_threshold) )
    => gvecs = FirstAppearances(data, Len(data))

\* C3: at each visited position the vectors selected as new are exactly those of
\* the position's list farther than distance_threshold from every vector accepted
\* before the position was processed, in the order of the list.  A signal of one
\* position selects nothing: its only visit raises before the selection.
C3_SelectedAreExactlyTheFar ==
    [][ (pc = "loop" /\ pos <= Len(data) /\ pc' = "loop") =>
          /\ vlist' = data[pos]
          /\ gvlist_new' =
                SubSeqAt(data[pos],
                         { k \in DOMAIN data[pos] :
                             \A g \in DOMAIN gvlist :
                                 ExceedsThreshold(Dist2(data[pos][k], gvlist[g]),
                                                  distance_threshold) },
                         Len(data[pos])) ]_vars

\* C3 witness: a visit selected some vectors of its position and rejected others,
\* with more than the seed accepted before it.
C3_Witness ==
    /\ pc = "loop"
    /\ pos > 2
    /\ Len(gvlist_new) >= 1
    /\ Len(gvlist_new) < Len(vlist)
    /\ Len(gvlist) > Len(gvlist_new) + 1

\* C4 as stated: an empty first position ends the call with an EmptySeedError,
\* before any position is processed and with nothing returned.
C4_EmptySeedError ==
    (pc # "called" /\ Len(data[1]) = 0) =>
        /\ pc = "raised"
        /\ err = "EmptySeedError"
        /\ pos = 1
        /\ gvecs = None

\* C4 amended: an empty first position ends the call with an IndexError, raised
\* at the seeding step before any position is processed and with nothing returned.
C4_EmptySeedIndexError ==
    (pc # "called" /\ Len(data[1]) = 0) =>
        /\ pc = "raised"
        /\ err = "IndexError"
        /\ pos = 1
        /\ gvlist = <<>>
        /\ gvecs = None

\* C4 witness: a call on a grid whose first position is empty and whose other
\* positions hold vectors has failed.
C4_Witness ==
    /\ pc = "raised"
    /\ Len(data[1]) = 0
    /\ Len(data) >= 2
    /\ \A p \in 2..Len(data) : Len(data[p]) >= 1

\* C8: the pass deletes exactly the accepted vectors that have another accepted
\* vector within distance_threshold in the list as it stood before the pass, all
\* of them in one batch, and the survivors keep their relative order.
C8_BatchDeletion ==
    pc = "returned" =>
        LET keep == { i \in DOMAIN gvlist : ~HasCloseOther(gvlist, i, distance_threshold) }
        IN  /\ Len(gvecs) = Cardinality(keep)
            /\ \A k \in DOMAIN gvecs : gvecs[k] = gvlist[NthOf(keep, k)]

\* C8 witness: the pass removed every member of a pair of close vectors and kept
\* a vector standing before and a vector standing after one of them.
C8_Witness ==
    /\ pc = "returned"
    /\ \E i, j \in DOMAIN gvlist :
          /\ i < j
          /\ WithinThreshold(Dist2(gvlist[i], gvlist[j]), distance_threshold)
          /\ gvlist[i] \notin Range(gvecs)
          /\ gvlist[j] \notin Range(gvecs)
          /\ j < Len(gvlist)
    /\ Len(gvecs) = 2

\* C9: the seed is never marked by the pass and is the first returned vector, so
\* the result is not empty; accepted vectors within distance_threshold of each
\* other were appended from the list of one position.
C9_SeedSurvives ==
    /\ pc \in {"loop", "returned"} =>
          /\ Len(gvlist) >= 1
          /\ gvlist[1] = data[1][1]
          /\ ~HasCloseOther(gvlist, 1, distance_threshold)
          /\ 1 \notin Range(DeleteIndices(gvlist, distance_threshold))
          /\ \A i, j \in DOMAIN gvlist :
                (i # j /\ WithinThreshold(Dist2(gvlist[i], gvlist[j]), distance_threshold))
                    => (i > 1 /\ j > 1 /\ origin[i] = origin[j])
    /\ pc = "returned" =>
          /\ Len(gvecs) >= 1
          /\ gvecs[1] = data[1][1]

\* C9 witness: a call returned whose accepted list held two close vectors, both
\* taken from a position after the first.
C9_Witness ==
    /\ pc = "returned"
    /\ \E i, j \in DOMAIN gvlist :
          /\ i # j
          /\ WithinThreshold(Dist2(gvlist[i], gvlist[j]), distance_threshold)
          /\ origin[i] > 1
    /\ gvecs[1] = data[1][1]

(***************************************************************************)
(* Properties of get_vector_clusters.                                       *)
(***************************************************************************)
\* C7: with eps = 0.01 and min_samples = 1 every distinct point of the seed
\* position's list is labelled, is a core sample, is not noise and has a cluster of
\* its own; a sample is a core sample exactly when at least min_samples points,
\* itself included, lie within eps of it.
C7_EveryPointItsOwnCluster ==
    pc = "returned" =>
        /\ \A i \in DOMAIN gvs :
              (i - 1 \in Range(db.core_sample_indices))
                  <=> Cardinality({ j \in DOMAIN gvs :
                                      WithinThreshold(Dist2(gvs[i], gvs[j]), eps) })
                          >= min_samples
        /\ (eps = <<1, 100>> /\ min_samples = 1) =>
              /\ \A i \in DOMAIN data[1] :
                    \E k \in DOMAIN gvs :
                        /\ gvs[k] = data[1][i]
                        /\ db.labels[k] # -1
                        /\ k - 1 \in Range(db.core_sample_indices)
              /\ \A k, l \in DOMAIN gvs :
                    (gvs[k] # gvs[l]) <=> (db.labels[k] # db.labels[l])

(***************************************************************************)
(* Properties of get_gvector_indexation.                                    *)
(***************************************************************************)
\* The squares of the magnitudes of the vectors of a list.
Magnitudes2(vl) == [k \in DOMAIN vl |-> Dist2(vl[k], <<0, 0>>)]

\* C5: the call returns a grid of the shape of the scan grid whose cell at each
\* position holds, for every measured magnitude of the position, exactly the
\* lattice points whose squared magnitude difference is below
\* magnitude_threshold, each with that difference.
C5_MatchesBelowThreshold ==
    \A c \in DOMAIN history :
        /\ history[c].outcome.raised = "none"
        /\ DOMAIN history[c].outcome.value = DOMAIN data
        /\ \A p \in DOMAIN data :
              history[c].outcome.value[p] =
                  IndexCell(Magnitudes2(data[p]), CalcPeaks(structure, maximum_length),
                            magnitude_threshold)

\* C6: two calls on one signal that differ only in angular_threshold, given or
\* not, both return a result, and the two results are identical.
C6_AngularThresholdIgnored ==
    \A c, d \in DOMAIN history :
        history[c].angular_threshold # history[d].angular_threshold =>
            /\ history[c].outcome.raised = "none"
            /\ history[d].outcome.raised = "none"
            /\ history[c].outcome.value = history[d].outcome.value

(***************************************************************************)
(* Properties of the permanent markers.                                     *)
(***************************************************************************)
\* C10: after any calls with marker lists L1..Lk the Markers node holds exactly
\* the entries marker0 .. marker(N-1), N = len(L1) + ... + len(Lk), the markers of
\* each call in list order after those of the calls before; and no call
\* overwrites, renames or removes an entry stored before it.
C10_MarkersAccumulate ==
    /\ [] ( IF "Markers" \in DOMAIN metadata
            THEN /\ DOMAIN metadata["Markers"] =
                        { MarkerName(n) : n \in 0..(Len(added) - 1) }
                 /\ Cardinality(DOMAIN metadata["Markers"]) = Len(added)
                 /\ \A n \in 0..(Len(added) - 1) :
                        metadata["Markers"][MarkerName(n)] = added[n + 1]
            ELSE added = <<>> )
    /\ [][ "Markers" \in DOMAIN metadata =>
             /\ "Markers" \in DOMAIN metadata'
             /\ \A name \in DOMAIN metadata["Markers"] :
                    /\ name \in DOMAIN metadata'["Markers"]
                    /\ metadata'["Markers"][name] = metadata["Markers"][name] ]_vars

\* C10 witness: three calls or more have stored markers, the last of them two.
C10_Witness ==
    /\ "Markers" \in DOMAIN metadata
    /\ Len(added) = 4
    /\ MarkerName(3) \in DOMAIN metadata["Markers"]
    /\ added[1] # added[2]
    /\ added[2] # added[3]
    /\ added[3].color = "blue"
    /\ added[4].color = "blue"
    /\ added[1].x[<<0, 0>>] = FillValue
====
